---------------------------- MODULE Spec2Model ----------------------------
(***************************************************************************)
(* M5Unit-Sonic (timer based fork): the two non-blocking acquisition state *)
(* machines SONIC_I2C and SONIC_IO of src/src/Unit_Sonic.cpp.              *)
(*                                                                         *)
(* uint32_t values are pairs <<hi, lo>> of 16-bit limbs (value             *)
(* hi * 2^16 + lo), so that all arithmetic is done modulo 2^32 exactly as  *)
(* the C++ unsigned arithmetic does it.                                    *)
(***************************************************************************)
EXTENDS Integers, Sequences, FiniteSets, TLC

(***************************************************************************)
(* Program constants (Unit_Sonic.h).                                       *)
(***************************************************************************)
SONIC_MAX_DISTANCE == 4500
SONIC_I2C_DATA_TIME == 120
SONIC_IO_TIMEOUT_MS == 120
SONIC_IO_TRIG_PULSE_US == 10
SONIC_SOUND_UM_PER_US == 343

(***************************************************************************)
(* Bounds of the model.                                                    *)
(***************************************************************************)
\* number of events of the environment: time passing (between two calls, or
\* in the busy-wait of a SONIC_IO trigger pulse) and echo edges handled
\* (echo_isr_rising() and echo_isr_falling() calls)
MaxEvents == 4

(***************************************************************************)
(* uint32_t arithmetic on 16-bit limbs.                                    *)
(***************************************************************************)
B16 == 256 * 256

Zero32 == <<0, 0>>

\* the uint32_t with value n, for 0 <= n < 2^31
U32(n) == <<n \div B16, n % B16>>

\* the value of a uint32_t below 2^31 as a number
ToNat(a) == a[1] * B16 + a[2]

\* a + n modulo 2^32, for a number 0 <= n < 2^31
Add32(a, n) ==
    LET lo == a[2] + (n % B16)
        hi == a[1] + (n \div B16) + (lo \div B16)
    IN  <<hi % B16, lo % B16>>

\* a - b modulo 2^32 (unsigned subtraction)
Sub32(a, b) ==
    LET borrow == IF a[2] < b[2] THEN 1 ELSE 0
        lo == a[2] + borrow * B16 - b[2]
        hi == (a[1] + B16 - b[1] - borrow) % B16
    IN  <<hi, lo>>

\* a * k modulo 2^32, for a small number k (k < 2^15)
Mul32(a, k) ==
    LET p == a[2] * k
        hi == a[1] * k + (p \div B16)
    IN  <<hi % B16, p % B16>>

\* a / k (unsigned integer division), for a small number 0 < k < 2^15
Div32(a, k) ==
    LET r == a[1] % k
    IN  <<a[1] \div k, (r * B16 + a[2]) \div k>>

\* a % k, for a small number 0 < k < 2^15
Mod32(a, k) == ((a[1] % k) * B16 + a[2]) % k

\* a > n, for a number 0 <= n < 2^16
Gt32(a, n) == a[1] > 0 \/ a[2] > n

\* bitwise or of two numbers below 2^16
RECURSIVE BitOr(_, _)
BitOr(x, y) ==
    IF x = 0 THEN y
    ELSE IF y = 0 THEN x
    ELSE (IF (x % 2) + (y % 2) > 0 THEN 1 ELSE 0) + 2 * BitOr(x \div 2, y \div 2)

Or32(a, b) == <<BitOr(a[1], b[1]), BitOr(a[2], b[2])>>

\* (int)b << s as a uint32_t, for a byte b and s in {0, 8, 16}
ShiftByte(b, s) ==
    IF s = 16 THEN <<b, 0>>
    ELSE IF s = 8 THEN <<0, b * 256>>
    ELSE <<0, b>>

Min(x, y) == IF x < y THEN x ELSE y


(***************************************************************************)
(* A float result is the pair <<mm, thousandths>>: the whole millimetres   *)
(* and the fractional part in 1/1000 mm of the exact quotient.  The float  *)
(* the code returns is the nearest single-precision value to it; below the *)
(* clamp its rounding error (at most 2^-12 mm) never reaches the next      *)
(* thousandth, so order, clamp and truncation are those of the exact value.*)
(***************************************************************************)
FMin(f, max) == IF f[1] >= max THEN <<max, 0>> ELSE f

\* (uint16_t) x : the low 16 bits
U16(a) == a[2]

(***************************************************************************)
(* Unit_Sonic.h conversion macros.                                         *)
(***************************************************************************)
SONIC_SOUND_US_TO_UM(x) == Mul32(x, SONIC_SOUND_UM_PER_US)

U32_SONIC_PULSE_TO_UM(x) == Div32(SONIC_SOUND_US_TO_UM(x), 2)

U16_SONIC_UM_TO_MM(x) == U16(Div32(x, 1000))

F_SONIC_UM_TO_MM(x) == <<ToNat(Div32(x, 1000)), Mod32(x, 1000)>>

(***************************************************************************)
(* class SONIC_I2C.  ms is the value millis() returns during the call, rx  *)
(* the three bytes Wire.read() delivers, in order, if the call reads.      *)
(***************************************************************************)
I2C_new ==
    [ sensor_data_timer |-> Zero32,
      sensor_data       |-> U32(SONIC_MAX_DISTANCE),
      sensor_busy       |-> FALSE ]

I2C_start_timer(ms) == ms

\* mutant: expired as soon as the timeout is reached
I2C_timer_expired_at_timeout(timer, timeout, ms) ==
    Gt32(Sub32(ms, timer), timeout - 1) /\ timer # Zero32

\* mutant: the timeout taken for seconds
I2C_timer_expired_seconds(timer, timeout, ms) ==
    Gt32(Sub32(ms, timer), timeout \div 1000) /\ timer # Zero32

I2C_timer_expired(timer, timeout, ms) ==
    Gt32(Sub32(ms, timer), timeout) /\ timer # Zero32

I2C_stop_timer == Zero32

I2C_begin(self) == [self EXCEPT !.sensor_busy = FALSE]

\* mutant: the bytes assembled least significant first
I2C_read_bytes_little_endian(rx) ==
    LET d0 == Zero32
        d1 == Or32(d0, ShiftByte(rx[1], 0))
        d2 == Or32(d1, ShiftByte(rx[2], 8))
        d3 == Or32(d2, ShiftByte(rx[3], 16))
    IN  d3

\* _sensor_data = 0; for (i = 3; i > 0; i--) _sensor_data |= read() << (8 * (i - 1))
I2C_read_bytes(rx) ==
    LET d0 == Zero32
        d1 == Or32(d0, ShiftByte(rx[1], 16))
        d2 == Or32(d1, ShiftByte(rx[2], 8))
        d3 == Or32(d2, ShiftByte(rx[3], 0))
    IN  d3

\* mutant: the expiry test looks at the timer as it was before the trigger
I2C_readingAvailable_late_start(self, ms, rx) ==
    LET trig == ~self.sensor_busy
        s1 == IF trig
              THEN [self EXCEPT !.sensor_busy = TRUE,
                                !.sensor_data_timer = I2C_start_timer(ms)]
              ELSE self
        w1 == IF trig THEN <<"trigger">> ELSE <<>>
    IN  IF I2C_timer_expired(self.sensor_data_timer, SONIC_I2C_DATA_TIME, ms)
        THEN [ self |-> [s1 EXCEPT !.sensor_data = I2C_read_bytes(rx),
                                    !.sensor_busy = FALSE,
                                    !.sensor_data_timer = I2C_stop_timer],
               ret  |-> TRUE,
               wire |-> Append(w1, "read") ]
        ELSE [ self |-> s1, ret |-> FALSE, wire |-> w1 ]

I2C_readingAvailable(self, ms, rx) ==
    LET trig == ~self.sensor_busy
        s1 == IF trig
              THEN [self EXCEPT !.sensor_busy = TRUE,
                                !.sensor_data_timer = I2C_start_timer(ms)]
              ELSE self
        w1 == IF trig THEN <<"trigger">> ELSE <<>>
    IN  IF I2C_timer_expired(s1.sensor_data_timer, SONIC_I2C_DATA_TIME, ms)
        THEN [ self |-> [s1 EXCEPT !.sensor_data = I2C_read_bytes(rx),
                                    !.sensor_busy = FALSE,
                                    !.sensor_data_timer = I2C_stop_timer],
               ret  |-> TRUE,
               wire |-> Append(w1, "read") ]
        ELSE [ self |-> s1, ret |-> FALSE, wire |-> w1 ]

I2C_getDistance(self) ==
    FMin(F_SONIC_UM_TO_MM(self.sensor_data), SONIC_MAX_DISTANCE)

I2C_getDistance_uint16(self) ==
    Min(U16(Div32(self.sensor_data, 1000)), SONIC_MAX_DISTANCE)

I2C_getStatus(self) == self.sensor_busy

(***************************************************************************)
(* class SONIC_IO.  ms and us are the values millis() and micros() return  *)
(* during the call.                                                        *)
(***************************************************************************)
IO_new ==
    [ sensor_pulse_start    |-> Zero32,
      sensor_timeout_timer  |-> Zero32,
      sensor_pulse_duration |-> Zero32,
      sensor_data           |-> U32(SONIC_MAX_DISTANCE),
      sensor_busy           |-> FALSE,
      sensor_data_ready     |-> FALSE ]

IO_start_timer(ms) == ms

IO_timer_expired(timer, timeout, ms) ==
    Gt32(Sub32(ms, timer), timeout) /\ timer # Zero32

IO_stop_timer == Zero32

\* mutant: begin() also resets the stored reading
IO_begin_resets_reading(self) ==
    [self EXCEPT !.sensor_pulse_duration = Zero32,
                 !.sensor_data = U32(SONIC_MAX_DISTANCE),
                 !.sensor_busy = FALSE]

\* begin(), lines 128-129: _sensor_pulse_duration = 0; _sensor_busy = false
IO_begin_reset(self) ==
    [self EXCEPT !.sensor_pulse_duration = Zero32,
                 !.sensor_busy = FALSE]

\* begin(), line 130: _sensor_data_ready = false
IO_begin_ready(self) == [self EXCEPT !.sensor_data_ready = FALSE]

echo_isr_rising(self, us) == [self EXCEPT !.sensor_pulse_start = us]

\* mutant: the flag is set but the duration is not written
echo_isr_falling_flag_only(self, us) == [self EXCEPT !.sensor_data_ready = TRUE]

echo_isr_falling(self, us) ==
    [self EXCEPT !.sensor_pulse_duration = Sub32(us, self.sensor_pulse_start),
                 !.sensor_data_ready = TRUE]

\* mutant: _sensor_busy is not cleared
data_collected_keeps_busy(self) ==
    [self EXCEPT !.sensor_timeout_timer = IO_stop_timer,
                 !.sensor_data_ready = FALSE]

data_collected(self) ==
    [self EXCEPT !.sensor_timeout_timer = IO_stop_timer,
                 !.sensor_data_ready = FALSE,
                 !.sensor_busy = FALSE]

\* mutant: the trigger is issued without looking at _sensor_busy
IO_idle_always(self) == TRUE

\* readingAvailable(), line 171: if(!_sensor_busy)
IO_idle(self) == ~self.sensor_busy

\* readingAvailable(), lines 179-181: _sensor_busy = true;
\* _sensor_data_ready = false; start_timer()
IO_clear_ready(self, ms) ==
    [self EXCEPT !.sensor_busy = TRUE,
                 !.sensor_data_ready = FALSE,
                 !.sensor_timeout_timer = IO_start_timer(ms)]

\* mutant: the timeout is tested before _sensor_data_ready
IO_branch_timeout_first(self, ms) ==
    IF IO_timer_expired(self.sensor_timeout_timer, SONIC_IO_TIMEOUT_MS, ms)
    THEN "timeout"
    ELSE IF self.sensor_data_ready THEN "pulse" ELSE "none"

\* readingAvailable(), the tests of line 185 and line 195
IO_branch(self, ms) ==
    IF self.sensor_data_ready
    THEN "pulse"
    ELSE IF IO_timer_expired(self.sensor_timeout_timer, SONIC_IO_TIMEOUT_MS, ms)
    THEN "timeout"
    ELSE "none"

\* readingAvailable(), line 186
IO_convert(self) ==
    [self EXCEPT !.sensor_data = U32_SONIC_PULSE_TO_UM(self.sensor_pulse_duration)]

\* readingAvailable(), line 197
IO_store_max(self) == [self EXCEPT !.sensor_data = U32(SONIC_MAX_DISTANCE)]

\* mutant: the clamp left out
IO_getDistance_unclamped(self) == F_SONIC_UM_TO_MM(self.sensor_data)

IO_getDistance(self) ==
    FMin(F_SONIC_UM_TO_MM(self.sensor_data), SONIC_MAX_DISTANCE)

IO_getDistance_uint16(self) ==
    Min(U16_SONIC_UM_TO_MM(self.sensor_data), SONIC_MAX_DISTANCE)

IO_getStatus(self) == self.sensor_busy

(***************************************************************************)
(* The state: one sensor object of either class, driven by a sketch, and   *)
(* the Arduino clock.  millis() and micros() read the same time base:      *)
(* micros() = millis() * 1000 + now_frac (modulo 2^32).                    *)
(***************************************************************************)
VARIABLES
    unit,       \* "I2C" or "IO": the class of the sensor object in use
    begun,      \* begin() has been called
    i2c,        \* the fields of the SONIC_I2C object
    io,         \* the fields of the SONIC_IO object
    now_ms,     \* millis(), a uint32_t
    now_frac,   \* microseconds into the current millisecond
    events,     \* number of events of the environment so far
    op,         \* the last operation performed
    ret,        \* the boolean it returned (readingAvailable, begin, getStatus)
    ret16,      \* the value getDistance_uint16() returned
    retf,       \* the value getDistance() returned, <<mm, thousandths>>
    wire,       \* the bus / pin operations the last call performed
    rx,         \* the bytes the bus delivered to the last call
    lastRA,     \* what the most recent readingAvailable() returned
    completed,  \* some readingAvailable() has returned true
    sinceTrig,  \* milliseconds counted by millis() since the last trigger (-1: none)
    sinceRise,  \* microseconds since the last echo_isr_rising() (-1: none)
    rose,       \* echo_isr_rising() has run since the last trigger
    fell,       \* echo_isr_falling() has run since the last trigger cleared
                \* _sensor_data_ready
    pulse,      \* width in us of the echo pulse (rise since the last trigger)
                \* that the last such echo_isr_falling() closed (-1: none)
    fresh,      \* begin() has been called and readingAvailable() not since
    lastBus,    \* SONIC_I2C: the last bus operation since begin():
                \* "none", "trigger" or "read"
    durBy,      \* SONIC_IO: who wrote _sensor_pulse_duration last: "reset"
                \* (constructor, begin), "isr" (echo_isr_falling, and
                \* _sensor_data_ready not cleared since) or "stale"
                \* (echo_isr_falling before the last clear), and the value written
    ra          \* SONIC_IO: the begin() or readingAvailable() call in progress:
                \* the statement it is at ("out": none), whether it found the
                \* sensor Idle, the pin operations it has performed, the
                \* microseconds of the busy-wait still to go and the branch
                \* it took ("pulse", "timeout" or "none")

objVars   == <<unit, begun, i2c, io>>
clockVars == <<now_ms, now_frac, events>>
obsVars   == <<op, ret, ret16, retf, wire, rx>>
histVars  == <<lastRA, completed, sinceTrig, sinceRise, rose, fell, pulse>>
cycleVars == <<fresh, lastBus, durBy>>
vars      == <<objVars, clockVars, obsVars, histVars, cycleVars, ra>>

millis == now_ms

micros == Add32(Mul32(now_ms, 1000), now_frac)

\* clock values at which the sensor object is constructed:
\* boot, and 120 ms before millis() wraps around (49.7 days after boot)
StartMs == { Zero32, Sub32(Zero32, U32(120)) }

\* amounts of time (in microseconds) that pass between two operations
Deltas == { 2500, 120000, 385000, 12525000 }

\* three-byte answers of the I2C unit
Payloads ==
    { <<0, 11, 184>>, <<0, 0, 0>>, <<68, 170, 31>>, <<68, 170, 32>>, <<255, 255, 255>> }

\* the call performed a trigger (the 0x01 command write, the trigger pulse)
Triggered(w) == \E i \in 1..Len(w) : w[i] = "trigger"

\* the call performed the 3-byte read
ReadBus(w) == \E i \in 1..Len(w) : w[i] = "read"

\* no readingAvailable() call of the SONIC_IO object is in progress
NoCall == [pc |-> "out", idle |-> FALSE, wire |-> <<>>, wait |-> 0, took |-> "none"]

\* _sensor_data_ready is cleared: a duration an interrupt wrote before is stale
Cleared(by) == IF by.who = "isr" THEN [by EXCEPT !.who = "stale"] ELSE by

\* the constructor or begin() wrote _sensor_pulse_duration = 0
ByReset == [who |-> "reset", us |-> Zero32]

Obs(o, r, r16, rf, w, x) ==
    /\ op' = o
    /\ ret' = r
    /\ ret16' = r16
    /\ retf' = rf
    /\ wire' = w
    /\ rx' = x

Init ==
    /\ unit \in {"I2C", "IO"}
    /\ begun = FALSE
    /\ i2c = I2C_new
    /\ io = IO_new
    /\ now_ms \in StartMs
    /\ now_frac = 0
    /\ events = 0
    /\ op = "new"
    /\ ret = FALSE
    /\ ret16 = 0
    /\ retf = <<0, 0>>
    /\ wire = <<>>
    /\ rx = <<>>
    /\ lastRA = FALSE
    /\ completed = FALSE
    /\ sinceTrig = -1
    /\ sinceRise = -1
    /\ rose = FALSE
    /\ fell = FALSE
    /\ pulse = -1
    /\ fresh = FALSE
    /\ lastBus = "none"
    /\ durBy = ByReset
    /\ ra = NoCall

\* d microseconds pass on the clock that millis() and micros() read
Elapse(d) ==
    LET dms == (now_frac + d) \div 1000 IN
    /\ now_ms' = Add32(now_ms, dms)
    /\ now_frac' = (now_frac + d) % 1000
    /\ sinceRise' = IF sinceRise < 0 THEN sinceRise ELSE sinceRise + d
    /\ sinceTrig' = IF sinceTrig < 0 THEN sinceTrig ELSE sinceTrig + dms

\* time passes between two calls of the sketch
Tick ==
    /\ ra.pc = "out"
    /\ events < MaxEvents
    /\ \E d \in Deltas : Elapse(d)
    /\ events' = events + 1
    /\ Obs("tick", FALSE, 0, <<0, 0>>, <<>>, <<>>)
    /\ UNCHANGED <<objVars, lastRA, completed, rose, fell, pulse, cycleVars, ra>>

(***************************************************************************)
(* SONIC_I2C: one action per public member function.  readingAvailable()  *)
(* is called only after begin(): before it _wire is uninitialised.         *)
(* Wire.read() delivers bytes 0..255.  A call reads the clock once.        *)
(***************************************************************************)
\* what a call of readingAvailable() that returned r and did w leaves behind
AfterRA(r, w) ==
    LET trig == Len(w) > 0 /\ w[1] = "trigger" IN
    /\ lastRA' = r
    /\ completed' = (completed \/ r)
    /\ sinceTrig' = IF trig THEN 0 ELSE sinceTrig
    /\ rose' = IF trig THEN FALSE ELSE rose
    /\ fell' = IF trig THEN FALSE ELSE fell
    /\ pulse' = IF trig THEN -1 ELSE pulse
    /\ UNCHANGED sinceRise

Call_I2C_begin ==
    /\ unit = "I2C"
    /\ \E detected \in BOOLEAN :
         Obs("begin", detected, 0, <<0, 0>>, <<"probe">>, <<>>)
    /\ i2c' = I2C_begin(i2c)
    /\ begun' = TRUE
    /\ fresh' = TRUE
    /\ lastBus' = "none"
    /\ UNCHANGED <<unit, io, clockVars, histVars, durBy, ra>>

Call_I2C_readingAvailable ==
    /\ unit = "I2C"
    /\ begun
    /\ \E bytes \in Payloads :
         LET r == I2C_readingAvailable(i2c, millis, bytes) IN
         /\ i2c' = r.self
         /\ Obs("readingAvailable", r.ret, 0, <<0, 0>>, r.wire,
                IF r.ret THEN bytes ELSE <<>>)
         /\ AfterRA(r.ret, r.wire)
         /\ lastBus' = IF ReadBus(r.wire) THEN "read"
                       ELSE IF Triggered(r.wire) THEN "trigger" ELSE lastBus
    /\ fresh' = FALSE
    /\ UNCHANGED <<unit, begun, io, clockVars, durBy, ra>>

Call_I2C_getDistance ==
    /\ unit = "I2C"
    /\ Obs("getDistance", FALSE, 0, I2C_getDistance(i2c), <<>>, <<>>)
    /\ UNCHANGED <<objVars, clockVars, histVars, cycleVars, ra>>

Call_I2C_getDistance_uint16 ==
    /\ unit = "I2C"
    /\ Obs("getDistance_uint16", FALSE, I2C_getDistance_uint16(i2c), <<0, 0>>, <<>>, <<>>)
    /\ UNCHANGED <<objVars, clockVars, histVars, cycleVars, ra>>

Call_I2C_getStatus ==
    /\ unit = "I2C"
    /\ Obs("getStatus", I2C_getStatus(i2c), 0, <<0, 0>>, <<>>, <<>>)
    /\ UNCHANGED <<objVars, clockVars, histVars, cycleVars, ra>>

(***************************************************************************)
(* SONIC_IO.  The echo interrupt handlers are attached with                *)
(* attachInterrupt() and preempt begin() and readingAvailable() between    *)
(* any two statements; a handler runs to completion before the call        *)
(* resumes.  The statements of a call are taken in program order.  A       *)
(* statement that neither reads nor writes a field the handlers touch      *)
(* (_sensor_pulse_start, _sensor_pulse_duration, _sensor_data_ready) nor   *)
(* lets time pass gives the same result whether a handler runs before or   *)
(* after it, and is taken in one step with the statement that follows it.  *)
(* The only time that passes inside a call is the busy-wait of the trigger *)
(* pulse (line 175): micros() counts microseconds, so the wait is taken    *)
(* one microsecond at a time, and a handler runs at any microsecond of it. *)
(* The member functions need no begin() before them: all fields but the    *)
(* pin numbers are initialised by the constructor, and a trigger pulse     *)
(* before begin() goes to whatever pin the uninitialised _trig_pin names.  *)
(***************************************************************************)
\* readingAvailable() returns r
Return(r) ==
    /\ ra' = NoCall
    /\ Obs("readingAvailable", r, 0, <<0, 0>>, ra.wire, <<>>)
    /\ lastRA' = r
    /\ completed' = (completed \/ r)
    /\ fresh' = FALSE

\* begin(), lines 126-129: the pin numbers, _sensor_pulse_duration = 0,
\* _sensor_busy = false
Begin_reset ==
    /\ unit = "IO"
    /\ ra.pc = "out"
    /\ io' = IO_begin_reset(io)
    /\ durBy' = ByReset
    /\ ra' = [NoCall EXCEPT !.pc = "begin_ready"]
    /\ Obs("call", FALSE, 0, <<0, 0>>, <<>>, <<>>)
    /\ UNCHANGED <<unit, begun, i2c, clockVars, histVars, fresh, lastBus>>

\* begin(), lines 130-134: _sensor_data_ready = false, pinMode(), return
Begin_ready ==
    /\ ra.pc = "begin_ready"
    /\ io' = IO_begin_ready(io)
    /\ durBy' = Cleared(durBy)
    /\ begun' = TRUE
    /\ fresh' = TRUE
    /\ ra' = NoCall
    /\ Obs("begin", FALSE, 0, <<0, 0>>, <<>>, <<>>)
    /\ UNCHANGED <<unit, i2c, clockVars, histVars, lastBus>>

\* the handlers; what they did is on record when they ran between two calls
Call_echo_isr_rising ==
    /\ unit = "IO"
    /\ events < MaxEvents
    /\ events' = events + 1
    /\ io' = echo_isr_rising(io, micros)
    /\ sinceRise' = 0
    /\ rose' = TRUE
    /\ IF ra.pc = "out"
       THEN Obs("echo_isr_rising", FALSE, 0, <<0, 0>>, <<>>, <<>>)
       ELSE UNCHANGED obsVars
    /\ UNCHANGED <<unit, begun, i2c, now_ms, now_frac, lastRA, completed, sinceTrig,
                   fell, pulse, cycleVars, ra>>

Call_echo_isr_falling ==
    /\ unit = "IO"
    /\ events < MaxEvents
    /\ events' = events + 1
    /\ io' = echo_isr_falling(io, micros)
    /\ fell' = TRUE
    /\ pulse' = IF rose THEN sinceRise ELSE -1
    /\ durBy' = [who |-> "isr", us |-> Sub32(micros, io.sensor_pulse_start)]
    /\ IF ra.pc = "out"
       THEN Obs("echo_isr_falling", FALSE, 0, <<0, 0>>, <<>>, <<>>)
       ELSE UNCHANGED obsVars
    /\ UNCHANGED <<unit, begun, i2c, now_ms, now_frac, lastRA, completed, sinceTrig,
                   sinceRise, rose, fresh, lastBus, ra>>

\* readingAvailable() on an Idle sensor, lines 171-174: the test of
\* _sensor_busy and the rising edge of the trigger pulse
RA_trigger ==
    /\ unit = "IO"
    /\ ra.pc = "out"
    /\ IO_idle(io)
    /\ events < MaxEvents
    /\ events' = events + 1
    /\ ra' = [pc |-> "wait", idle |-> TRUE, wire |-> <<"trigger">>,
              wait |-> SONIC_IO_TRIG_PULSE_US, took |-> "none"]
    /\ sinceTrig' = 0
    /\ rose' = FALSE
    /\ fell' = FALSE
    /\ pulse' = -1
    /\ Obs("call", FALSE, 0, <<0, 0>>, <<>>, <<>>)
    /\ UNCHANGED <<objVars, now_ms, now_frac, sinceRise, lastRA, completed, cycleVars>>

\* line 175: one microsecond of delayMicroseconds(SONIC_IO_TRIG_PULSE_US)
RA_wait ==
    /\ ra.pc = "wait"
    /\ Elapse(1)
    /\ ra' = [ra EXCEPT !.wait = ra.wait - 1,
                        !.pc = IF ra.wait = 1 THEN "clear_ready" ELSE "wait"]
    /\ UNCHANGED <<objVars, events, obsVars, lastRA, completed, rose, fell, pulse, cycleVars>>

\* lines 176-181: the falling edge of the trigger pulse, _sensor_busy = true,
\* _sensor_data_ready = false, start_timer(); a falling echo edge handled
\* before this is discarded
RA_clear_ready ==
    /\ ra.pc = "clear_ready"
    /\ io' = IO_clear_ready(io, millis)
    /\ durBy' = Cleared(durBy)
    /\ ra' = [ra EXCEPT !.pc = "check_ready"]
    /\ fell' = FALSE
    /\ pulse' = -1
    /\ UNCHANGED <<unit, begun, i2c, clockVars, obsVars, lastRA, completed, sinceTrig,
                   sinceRise, rose, fresh, lastBus>>

\* the tests of line 185 and line 195, with line 197 (_sensor_data =
\* SONIC_MAX_DISTANCE) or line 205 (return false)
Check(took) ==
    /\ \/ /\ took = "pulse"
          /\ ra' = [ra EXCEPT !.pc = "convert"]
          /\ Obs("call", FALSE, 0, <<0, 0>>, <<>>, <<>>)
          /\ UNCHANGED <<io, histVars, fresh>>
       \/ /\ took = "timeout"
          /\ ra' = [ra EXCEPT !.pc = "collect", !.took = "timeout"]
          /\ io' = IO_store_max(io)
          /\ Obs("call", FALSE, 0, <<0, 0>>, <<>>, <<>>)
          /\ UNCHANGED <<histVars, fresh>>
       \/ /\ took = "none"
          /\ Return(FALSE)
          /\ UNCHANGED <<io, sinceTrig, sinceRise, rose, fell, pulse>>
    /\ UNCHANGED <<unit, begun, i2c, clockVars, lastBus, durBy>>

\* readingAvailable() on a busy sensor: lines 171 and 185-205
RA_poll ==
    /\ unit = "IO"
    /\ ra.pc = "out"
    /\ ~IO_idle(io)
    /\ Check(IO_branch(io, millis))

\* the call that triggered goes on: lines 185-205
RA_check_ready ==
    /\ ra.pc = "check_ready"
    /\ Check(IO_branch(io, millis))

\* line 186: _sensor_data = U32_SONIC_PULSE_TO_UM(_sensor_pulse_duration)
RA_convert ==
    /\ ra.pc = "convert"
    /\ io' = IO_convert(io)
    /\ ra' = [ra EXCEPT !.pc = "collect", !.took = "pulse"]
    /\ UNCHANGED <<unit, begun, i2c, clockVars, obsVars, histVars, cycleVars>>

\* data_collected(), lines 244-248, and return true (line 189 or line 199)
RA_data_collected ==
    /\ ra.pc = "collect"
    /\ io' = data_collected(io)
    /\ durBy' = Cleared(durBy)
    /\ Return(TRUE)
    /\ UNCHANGED <<unit, begun, i2c, clockVars, sinceTrig, sinceRise, rose, fell,
                   pulse, lastBus>>

\* the accessors, called by the sketch between two calls of begin() or
\* readingAvailable()
Call_IO_getDistance ==
    /\ unit = "IO"
    /\ ra.pc = "out"
    /\ Obs("getDistance", FALSE, 0, IO_getDistance(io), <<>>, <<>>)
    /\ UNCHANGED <<objVars, clockVars, histVars, cycleVars, ra>>

Call_IO_getDistance_uint16 ==
    /\ unit = "IO"
    /\ ra.pc = "out"
    /\ Obs("getDistance_uint16", FALSE, IO_getDistance_uint16(io), <<0, 0>>, <<>>, <<>>)
    /\ UNCHANGED <<objVars, clockVars, histVars, cycleVars, ra>>

Call_IO_getStatus ==
    /\ unit = "IO"
    /\ ra.pc = "out"
    /\ Obs("getStatus", IO_getStatus(io), 0, <<0, 0>>, <<>>, <<>>)
    /\ UNCHANGED <<objVars, clockVars, histVars, cycleVars, ra>>

Next ==
    \/ Tick
    \/ Call_I2C_begin
    \/ Call_I2C_readingAvailable
    \/ Call_I2C_getDistance
    \/ Call_I2C_getDistance_uint16
    \/ Call_I2C_getStatus
    \/ Begin_reset
    \/ Begin_ready
    \/ Call_echo_isr_rising
    \/ Call_echo_isr_falling
    \/ RA_trigger
    \/ RA_wait
    \/ RA_clear_ready
    \/ RA_poll
    \/ RA_check_ready
    \/ RA_convert
    \/ RA_data_collected
    \/ Call_IO_getDistance
    \/ Call_IO_getDistance_uint16
    \/ Call_IO_getStatus

Spec == Init /\ [][Next]_vars

(***************************************************************************)
(* The polling sketch: begin() once in setup(), then loop() calls          *)
(* readingAvailable() for ever while the clock runs and echo interrupts    *)
(* may or may not arrive.  loop() is called again and again by the Arduino *)
(* core, a call that has started runs on, and the millisecond clock is     *)
(* driven by a hardware timer: hence the weak fairness of the calls and    *)
(* of Tick.                                                                *)
(***************************************************************************)
Setup_I2C_begin == ~begun /\ Call_I2C_begin

Setup_IO_begin == ~begun /\ Begin_reset

\* a step of SONIC_IO::readingAvailable()
Call_IO_readingAvailable ==
    \/ RA_trigger
    \/ RA_wait
    \/ RA_clear_ready
    \/ RA_poll
    \/ RA_check_ready
    \/ RA_convert
    \/ RA_data_collected

\* loop() runs after setup() has returned
Loop_IO_readingAvailable == begun /\ Call_IO_readingAvailable

LoopNext ==
    \/ Tick
    \/ Setup_I2C_begin
    \/ Call_I2C_readingAvailable
    \/ Setup_IO_begin
    \/ Begin_ready
    \/ Call_echo_isr_rising
    \/ Call_echo_isr_falling
    \/ Loop_IO_readingAvailable

LoopSpec ==
    /\ Init
    /\ [][LoopNext]_vars
    /\ WF_vars(Tick)
    /\ WF_vars(Call_I2C_readingAvailable)
    /\ WF_vars(Loop_IO_readingAvailable)

(***************************************************************************)
(* Vocabulary of the properties.                                           *)
(***************************************************************************)
\* the timer of the sensor object in use
Timer == IF unit = "I2C" THEN i2c.sensor_data_timer ELSE io.sensor_timeout_timer

\* getStatus() of the sensor object in use
Busy == IF unit = "I2C" THEN I2C_getStatus(i2c) ELSE IO_getStatus(io)

\* getDistance() and getDistance_uint16() of the sensor object in use
Distance == IF unit = "I2C" THEN I2C_getDistance(i2c) ELSE IO_getDistance(io)

Distance16 ==
    IF unit = "I2C" THEN I2C_getDistance_uint16(i2c) ELSE IO_getDistance_uint16(io)

\* the stored raw reading of the sensor object in use
Stored == IF unit = "I2C" THEN i2c.sensor_data ELSE io.sensor_data

\* the float value mm.000 of a whole number of millimetres
Whole(mm) == <<mm, 0>>

\* min(um / 1000, 4500) as a float, and truncated, for a number um of micrometres
ClampedMm(um) ==
    IF um \div 1000 >= SONIC_MAX_DISTANCE
    THEN Whole(SONIC_MAX_DISTANCE)
    ELSE <<um \div 1000, um % 1000>>

ClampedMm16(um) == Min(um \div 1000, SONIC_MAX_DISTANCE)

\* the exact value of (d * 343) / 2 for a pulse width d, as limbs
\* <<top, hi, lo>> of the number top * 2^32 + hi * 2^16 + lo
ExactPulseUm(d) ==
    LET p   == (d % B16) * SONIC_SOUND_UM_PER_US
        q   == (d \div B16) * SONIC_SOUND_UM_PER_US + (p \div B16)
        lo  == p % B16
        hi  == q % B16
        top == q \div B16
    IN  << top \div 2,
           (hi + (top % 2) * B16) \div 2,
           (lo + (hi % 2) * B16) \div 2 >>

\* SONIC_IO: this step enters readingAvailable() with the sensor busy
Polls ==
    /\ unit = "IO"
    /\ ra.pc = "out"
    /\ IO_getStatus(io)
    /\ (ra'.pc \in {"convert", "collect"} \/ op' = "readingAvailable")

\* SONIC_IO: this step is line 186, the conversion of _sensor_pulse_duration
Converts == unit = "IO" /\ ra.pc = "convert" /\ ra'.pc = "collect"

\* SONIC_IO: this step is line 197, the store of SONIC_MAX_DISTANCE
StoresMax == unit = "IO" /\ ra.took # "timeout" /\ ra'.took = "timeout"

\* SONIC_IO: this step is data_collected() and the return of true
Collects == unit = "IO" /\ ra.pc = "collect" /\ ra'.pc = "out"

(***************************************************************************)
(* C1.  SONIC_I2C: a readingAvailable() call made more than 120 ms after   *)
(* the trigger (whatever millis() was at the trigger, 0 and values just    *)
(* before the wraparound included) returns true and leaves the sensor Idle *)
(* with the timer stopped, and the readingAvailable() call that follows a  *)
(* call that returned true returns false.                                  *)
(***************************************************************************)
C1_SettledReadCompletes ==
    [][ (unit = "I2C" /\ op' = "readingAvailable") =>
          /\ (I2C_getStatus(i2c) /\ sinceTrig > SONIC_I2C_DATA_TIME) =>
                /\ ret' = TRUE
                /\ I2C_getStatus(i2c') = FALSE
                /\ i2c'.sensor_data_timer = Zero32
          /\ (lastRA = TRUE) => (ret' = FALSE)
      ]_vars

(***************************************************************************)
(* C2.  SONIC_I2C: a readingAvailable() call made while the sensor is      *)
(* Measuring and fewer than 120 ms after the trigger returns false, does   *)
(* no bus transaction, keeps the sensor Measuring and leaves the stored    *)
(* reading, getDistance() and getDistance_uint16() as they were.           *)
(***************************************************************************)
C2_NoEffectBeforeSettling ==
    [][ ( /\ unit = "I2C"
          /\ op' = "readingAvailable"
          /\ I2C_getStatus(i2c)
          /\ sinceTrig < SONIC_I2C_DATA_TIME ) =>
          /\ ret' = FALSE
          /\ wire' = <<>>
          /\ I2C_getStatus(i2c') = TRUE
          /\ i2c'.sensor_data = i2c.sensor_data
          /\ I2C_getDistance(i2c') = I2C_getDistance(i2c)
          /\ I2C_getDistance_uint16(i2c') = I2C_getDistance_uint16(i2c)
      ]_vars

\* a call 2 ms after the trigger of a second measurement cycle
C2_Witness ==
    /\ unit = "I2C"
    /\ op = "readingAvailable"
    /\ ret = FALSE
    /\ wire = <<>>
    /\ I2C_getStatus(i2c)
    /\ sinceTrig > 0
    /\ sinceTrig < SONIC_I2C_DATA_TIME
    /\ completed

(***************************************************************************)
(* C3.  Both classes: a readingAvailable() call that starts with the       *)
(* sensor busy issues no trigger; a trigger is issued only by a call that  *)
(* starts with the sensor Idle, and only while the sensor is Idle.         *)
(***************************************************************************)
C3_TriggerOnlyWhenIdle ==
    [][ /\ (unit = "I2C" /\ op' = "readingAvailable" /\ Busy) => ~Triggered(wire')
        /\ (unit = "IO" /\ Triggered(ra'.wire) /\ ~Triggered(ra.wire))
           => (~Busy /\ ra'.idle)
        /\ Polls => (~Triggered(ra'.wire) /\ ~Triggered(wire')) ]_vars

\* a call in a running SONIC_IO cycle, after a rising echo edge, that did not trigger
C3_Witness ==
    /\ unit = "IO"
    /\ op = "readingAvailable"
    /\ ret = FALSE
    /\ IO_getStatus(io)
    /\ sinceTrig > 0
    /\ rose
    /\ ~Triggered(wire)

(***************************************************************************)
(* C4.  SONIC_IO timeout: after a trigger that no echo interrupt follows,  *)
(* the readingAvailable() call made once the 120 ms timeout has passed     *)
(* returns true, leaves the sensor Idle, and getDistance() is then exactly *)
(* 4500 mm and getDistance_uint16() is 4500.                               *)
(***************************************************************************)
C4_TimeoutReportsMaxDistance ==
    ( /\ unit = "IO"
      /\ op = "readingAvailable"
      /\ sinceTrig > SONIC_IO_TIMEOUT_MS
      /\ ~rose
      /\ ~fell ) =>
        /\ ret = TRUE
        /\ IO_getStatus(io) = FALSE
        /\ IO_getDistance(io) = Whole(SONIC_MAX_DISTANCE)
        /\ IO_getDistance_uint16(io) = SONIC_MAX_DISTANCE

(***************************************************************************)
(* C5.  SONIC_IO decoding: the readingAvailable() call that consumes an    *)
(* echo pulse of width d (rising and falling edge in the running cycle)    *)
(* stores d * 343 / 2 micrometres, for every d, and returns true; the      *)
(* distance reported is that value / 1000 clamped to 4500 mm.              *)
(***************************************************************************)
C5_PulseDecoded ==
    [][ /\ (Converts /\ pulse >= 0) =>
              LET e == ExactPulseUm(pulse) IN
              /\ e[1] = 0
              /\ io'.sensor_data = <<e[2], e[3]>>
              /\ IO_getDistance(io') =
                   IF e[1] > 0 THEN Whole(SONIC_MAX_DISTANCE)
                   ELSE FMin(<<ToNat(Div32(<<e[2], e[3]>>, 1000)),
                               Mod32(<<e[2], e[3]>>, 1000)>>, SONIC_MAX_DISTANCE)
              /\ IO_getDistance_uint16(io') =
                   IF e[1] > 0 THEN SONIC_MAX_DISTANCE
                   ELSE Min(ToNat(Div32(<<e[2], e[3]>>, 1000)), SONIC_MAX_DISTANCE)
        /\ Collects => ret' = TRUE ]_vars

(***************************************************************************)
(* C6.  SONIC_I2C decoding: a completed measurement whose read delivers    *)
(* the bytes b0, b1, b2 stores b0 * 65536 + b1 * 256 + b2 (the old value   *)
(* replaced); getDistance() is then min(raw / 1000, 4500) and              *)
(* getDistance_uint16() is min(raw div 1000, 4500).                        *)
(***************************************************************************)
C6_BigEndianDecoded ==
    (unit = "I2C" /\ op = "readingAvailable" /\ ret = TRUE) =>
        LET raw == rx[1] * 65536 + rx[2] * 256 + rx[3] IN
        /\ ToNat(i2c.sensor_data) = raw
        /\ I2C_getDistance(i2c) = ClampedMm(raw)
        /\ I2C_getDistance_uint16(i2c) = ClampedMm16(raw)

\* the payload 00 0B B8 read as 3.000 mm and 3
C6_Witness ==
    /\ unit = "I2C"
    /\ op = "readingAvailable"
    /\ ret = TRUE
    /\ ReadBus(wire)
    /\ rx = <<0, 11, 184>>
    /\ I2C_getDistance(i2c) = <<3, 0>>
    /\ I2C_getDistance_uint16(i2c) = 3

(***************************************************************************)
(* C7.  In every reachable state getDistance() and getDistance_uint16()    *)
(* of either class return at most 4500 (SONIC_MAX_DISTANCE).               *)
(***************************************************************************)
C7_NeverAboveMax ==
    /\ Distance[1] < SONIC_MAX_DISTANCE \/ Distance = Whole(SONIC_MAX_DISTANCE)
    /\ Distance16 <= SONIC_MAX_DISTANCE
    /\ (op = "getDistance") =>
          (retf[1] < SONIC_MAX_DISTANCE \/ retf = Whole(SONIC_MAX_DISTANCE))
    /\ (op = "getDistance_uint16") => (ret16 <= SONIC_MAX_DISTANCE)

\* getDistance() called on a stored reading above 4500 mm
C7_Witness ==
    /\ unit = "IO"
    /\ op = "getDistance"
    /\ completed
    /\ ToNat(Div32(io.sensor_data, 1000)) > SONIC_MAX_DISTANCE
    /\ retf = Whole(SONIC_MAX_DISTANCE)

(***************************************************************************)
(* C8.  For every stored raw reading of a reachable state, in both         *)
(* classes, getDistance_uint16() is min(raw div 1000, 4500): the integer   *)
(* truncation of what getDistance() returns.                               *)
(***************************************************************************)
C8_TruncationAgrees ==
    /\ Distance16 = Min(ToNat(Div32(Stored, 1000)), SONIC_MAX_DISTANCE)
    /\ Distance16 = Distance[1]

(***************************************************************************)
(* C9.  The stored reading changes only in a readingAvailable() call that  *)
(* returns true (in SONIC_IO: at line 186 or line 197, after which the     *)
(* call returns true); getDistance(), getDistance_uint16() and getStatus() *)
(* change nothing of the object.                                           *)
(***************************************************************************)
C9_ReadingFrame ==
    [][ /\ (i2c'.sensor_data # i2c.sensor_data) =>
              (op' = "readingAvailable" /\ ret' = TRUE)
        /\ (io'.sensor_data # io.sensor_data) => (Converts \/ StoresMax)
        /\ (Converts \/ StoresMax) => ra'.pc = "collect"
        /\ Collects => (op' = "readingAvailable" /\ ret' = TRUE)
        /\ (op' \in {"getDistance", "getDistance_uint16", "getStatus"}) =>
              (i2c' = i2c /\ io' = io)
      ]_vars

\* a completed reading read back while the next measurement is in flight
C9_Witness ==
    /\ unit = "I2C"
    /\ op = "getDistance"
    /\ I2C_getStatus(i2c)
    /\ completed
    /\ retf = <<3, 0>>

(***************************************************************************)
(* C10.  Before any measurement has completed, getDistance() returns 4500  *)
(* (mm) and getDistance_uint16() returns 4500, in both classes.            *)
(***************************************************************************)
C10_InitialSentinel ==
    (~completed) =>
        /\ Distance = Whole(SONIC_MAX_DISTANCE)
        /\ Distance16 = SONIC_MAX_DISTANCE

(***************************************************************************)
(* C11.  Liveness, both classes: while readingAvailable() keeps being      *)
(* called and the millisecond clock keeps advancing, every measurement in  *)
(* flight (getStatus() = true) is eventually ended by a readingAvailable() *)
(* call that returns true and leaves the sensor Idle, with or without echo *)
(* interrupts and whatever millis() was at the trigger.  The clock of the  *)
(* model stops after MaxEvents events; a measurement whose 120 ms had not  *)
(* yet passed when the clock stopped is not held against the claim.        *)
(***************************************************************************)
C11_EveryMeasurementEnds ==
    Busy ~> ( \/ (op = "readingAvailable" /\ ret = TRUE /\ ~Busy)
              \/ (events = MaxEvents /\ sinceTrig <= SONIC_IO_TIMEOUT_MS) )

(***************************************************************************)
(* C12.  Timer contract of both classes: at every clock value,             *)
(* timer_expired(timeout) is true exactly if start_timer has run and       *)
(* stop_timer has not run since, and (now - start) mod 2^32 > timeout; in  *)
(* particular across the wraparound of millis(), and never for a timer     *)
(* that was not started or has been stopped.  start_timer runs in the call *)
(* that triggers and stop_timer in the call that returns true, so between  *)
(* two calls the timer is running from the last trigger on while the last  *)
(* call returned false, and sinceTrig is (now - start) mod 2^32.           *)
(***************************************************************************)
TimerRunning == sinceTrig >= 0 /\ lastRA = FALSE /\ ra.pc = "out"

TimerExpiredNow(timeout) ==
    IF unit = "I2C"
    THEN I2C_timer_expired(i2c.sensor_data_timer, timeout, millis)
    ELSE IO_timer_expired(io.sensor_timeout_timer, timeout, millis)

C12_TimerContract ==
    ra.pc = "out" =>
        \A timeout \in {0, SONIC_I2C_DATA_TIME, SONIC_I2C_DATA_TIME + 265} :
            TimerExpiredNow(timeout) <=> (TimerRunning /\ sinceTrig > timeout)

(***************************************************************************)
(* C13.  SONIC_IO, with the echo interrupt handlers preempting the call    *)
(* between any two statements: every readingAvailable() call that finds    *)
(* the sensor Idle has, when it returns, emitted the trigger pulse,        *)
(* started the timeout timer at the current millis(), left the sensor      *)
(* Measuring and returned false; DataReady has been cleared, so if it is   *)
(* set at the return an echo_isr_falling() since the trigger set it.       *)
(***************************************************************************)
C13_IdleCallTriggers ==
    [][ (ra.pc # "out" /\ ra'.pc = "out" /\ ra.idle)
        => /\ Triggered(wire')
           /\ ret' = FALSE
           /\ IO_getStatus(io')
           /\ io'.sensor_timeout_timer = IO_start_timer(millis)
           /\ (io'.sensor_data_ready => fell') ]_vars

(***************************************************************************)
(* C14.  SONIC_IO, with the echo interrupt handlers preempting the call    *)
(* between any two statements: whenever readingAvailable() has seen        *)
(* DataReady = true and is about to convert _sensor_pulse_duration, that   *)
(* field holds the value an echo_isr_falling() invocation wrote after      *)
(* DataReady was last cleared: not the reset value of the constructor or   *)
(* begin(), and not a value older than the flag it has just seen.          *)
(***************************************************************************)
C14_ConvertsInterruptValue ==
    ra.pc = "convert"
    => /\ durBy.who = "isr"
       /\ io.sensor_pulse_duration = durBy.us

\* the flag was set by a handler that preempted the very call that triggered
\* (the sensor was Idle on entry), 2500 us and the trigger pulse after the
\* rising edge
C14_Witness ==
    /\ ra.pc = "convert"
    /\ ra.idle
    /\ fell
    /\ io.sensor_pulse_duration = U32(2500 + SONIC_IO_TRIG_PULSE_US)

(***************************************************************************)
(* C15.  begin() resets the acquisition state machine from any state,      *)
(* whatever the device probe of SONIC_I2C::begin() answers: after begin()  *)
(* getStatus() is false (and DataReady of SONIC_IO is false), and the next *)
(* readingAvailable() call, whatever happens in between, issues a trigger, *)
(* starts the timer at the current millis(), reads nothing and returns     *)
(* false with the sensor busy.                                             *)
(***************************************************************************)
C15_BeginResets ==
    [][ /\ op' = "begin"
           => /\ ~Busy'
              /\ (unit = "IO" => ~io'.sensor_data_ready)
        /\ (fresh /\ op' = "readingAvailable")
           => /\ wire' = <<"trigger">>
              /\ Timer' = millis
              /\ ret' = FALSE
              /\ Busy' ]_vars

(***************************************************************************)
(* C16.  SONIC_I2C: a readingAvailable() call does at most one unit of bus *)
(* work, one trigger write or one 3-byte read and never both; a call that  *)
(* finds the sensor Idle writes the trigger, starts the timer at the       *)
(* current millis(), reads no byte, leaves the sensor busy and returns     *)
(* false.                                                                  *)
(***************************************************************************)
C16_OneBusOperation ==
    [][ (unit = "I2C" /\ op' = "readingAvailable")
        => /\ wire' \in { <<>>, <<"trigger">>, <<"read">> }
           /\ (~Busy => /\ wire' = <<"trigger">>
                        /\ rx' = <<>>
                        /\ Timer' = millis
                        /\ Busy'
                        /\ ret' = FALSE) ]_vars

\* a call that found the sensor Idle 385 ms after boot: it has written the
\* trigger, started the timer and read nothing
C16_Witness ==
    /\ unit = "I2C"
    /\ op = "readingAvailable"
    /\ wire = <<"trigger">>
    /\ ret = FALSE
    /\ Busy
    /\ completed = FALSE
    /\ events = 1
    /\ now_ms = U32(385)
    /\ Timer = millis

(***************************************************************************)
(* C17.  SONIC_IO: a readingAvailable() call made while Measuring with     *)
(* DataReady true stores the converted _sensor_pulse_duration, clears busy *)
(* and DataReady, stops the timer and returns true, however long ago the   *)
(* trigger was; the 4500 sentinel is stored only by a call made with       *)
(* DataReady false and the timer expired, and a call made with DataReady   *)
(* false and the timer not expired stores nothing.                         *)
(***************************************************************************)
C17_PulseBeatsTimeout ==
    [][ LET expired == IO_timer_expired(io.sensor_timeout_timer,
                                        SONIC_IO_TIMEOUT_MS, millis)
        IN  /\ (Polls /\ io.sensor_data_ready) => ra'.pc = "convert"
            /\ Converts
               => /\ io'.sensor_data =
                         U32_SONIC_PULSE_TO_UM(io.sensor_pulse_duration)
                  /\ ra'.took = "pulse"
            /\ Collects
               => /\ ~io'.sensor_busy
                  /\ ~io'.sensor_data_ready
                  /\ io'.sensor_timeout_timer = IO_stop_timer
                  /\ io'.sensor_data = io.sensor_data
                  /\ ret' = TRUE
            /\ StoresMax
               => /\ ~io.sensor_data_ready
                  /\ expired
                  /\ io'.sensor_data = U32(SONIC_MAX_DISTANCE)
            /\ (Polls /\ ~io.sensor_data_ready /\ expired) => StoresMax
            /\ (Polls /\ ~io.sensor_data_ready /\ ~expired)
               => /\ io' = io
                  /\ ret' = FALSE
                  /\ ra'.pc = "out" ]_vars

\* a pulse of 385 ms, converted by a call made 385 ms after the trigger: the
\* timer had expired, and the pulse was stored
C17_Witness ==
    /\ unit = "IO"
    /\ ra.pc = "collect"
    /\ ra.took = "pulse"
    /\ ~ra.idle
    /\ sinceTrig = 385
    /\ pulse = 385000
    /\ io.sensor_data = U32_SONIC_PULSE_TO_UM(U32(385000))
    /\ io.sensor_data # U32(SONIC_MAX_DISTANCE)

(***************************************************************************)
(* C18.  SONIC_IO: every pulse-derived reading that a readingAvailable()   *)
(* call returning true reports was computed from a rising edge and a       *)
(* falling edge that both came after the trigger of the same measurement   *)
(* cycle: when the call converts _sensor_pulse_duration (line 186), a      *)
(* rising edge since the trigger opened the pulse that the last falling    *)
(* edge closed (pulse >= 0), and the stored value is the conversion of the *)
(* width of that pulse.                                                    *)
(***************************************************************************)
C18_ReadingFromOwnCycle ==
    [][ Converts
        => /\ pulse >= 0
           /\ io'.sensor_data = U32_SONIC_PULSE_TO_UM(U32(pulse)) ]_vars

(***************************************************************************)
(* C19.  Both classes: right after every readingAvailable() call the       *)
(* return value is true exactly if getStatus() is false; a call that       *)
(* returned false leaves a measurement in flight, a call that returned     *)
(* true leaves the sensor Idle with the timer stopped.  Hence between two  *)
(* calls the sensor is Idle only if readingAvailable() was never called,   *)
(* or begin() was called after the last call, or the last call returned    *)
(* true.                                                                   *)
(***************************************************************************)
C19_ReturnMirrorsStatus ==
    /\ op = "readingAvailable"
       => /\ ret = ~Busy
          /\ (ret => Timer = Zero32)
    /\ (ra.pc = "out" /\ ~Busy) => (sinceTrig < 0 \/ fresh \/ lastRA)

\* a SONIC_IO measurement ended by the timeout, and a later state in which
\* the sensor is still Idle because no call has been made since
C19_Witness ==
    /\ unit = "IO"
    /\ op = "tick"
    /\ ~Busy
    /\ lastRA
    /\ ~fresh
    /\ ~fell
    /\ sinceTrig > SONIC_IO_TIMEOUT_MS
    /\ Timer = IO_stop_timer

(***************************************************************************)
(* C20.  SONIC_I2C: the bus operations that the readingAvailable() calls   *)
(* issue after a begin() alternate trigger write, 3-byte read, trigger     *)
(* write, ..., starting with a trigger: a trigger is written only if the   *)
(* last bus operation since begin() was a read or there was none, a read   *)
(* is made only if it was a trigger, never in the call that wrote it, and  *)
(* only when the millisecond clock has advanced by more than 120 since     *)
(* that trigger.                                                           *)
(***************************************************************************)
C20_TriggerReadAlternate ==
    [][ (unit = "I2C" /\ op' = "readingAvailable")
        => /\ Triggered(wire') => lastBus \in {"none", "read"}
           /\ ReadBus(wire') => /\ lastBus = "trigger"
                                /\ ~Triggered(wire')
                                /\ sinceTrig > SONIC_I2C_DATA_TIME ]_vars

\* a read 385 ms after a trigger written at millis() = 265, itself 385 ms
\* after the sensor object was constructed at millis() = 2^32 - 120
C20_Witness ==
    /\ unit = "I2C"
    /\ op = "readingAvailable"
    /\ wire = <<"read">>
    /\ lastBus = "read"
    /\ sinceTrig = 385
    /\ now_ms = U32(650)

=============================================================================
